---- MODULE Spec2Model ----
(***************************************************************************)
(* Model of the test pyramid monitor (pyramid-monitor.py): the registry    *)
(* built by the collector and the four per-language extractors, the        *)
(* distribution calculator, the scorer, the recommendation generator and   *)
(* the process exit status; and of the marker validator                    *)
(* (validate-markers.py): its scan of a file, its totals and exit status.  *)
(*                                                                         *)
(* Percentages and scores are Python floats in the source; here they are   *)
(* exact rationals [num, den] in lowest terms, so the properties are those *)
(* of the arithmetic the code writes down, without rounding error.         *)
(***************************************************************************)
EXTENDS Integers, Sequences, FiniteSets, TLC

VARIABLES
    pc,                 \* position of the running program
    indicators,         \* project indicator files present in the project root
    dirs,               \* conventional test directories present under the root
    files,              \* files the language's glob yields: id -> [content, readable]
    targets,            \* self.targets
    minimum_score,      \* self.minimum_score
    language,           \* self.language
    all_tests,          \* self.all_tests
    tests_by_marker,    \* self.tests_by_marker
    test_files_scanned, \* self.test_files_scanned
    pending,            \* files the collector's loop has not reached yet
    scan,               \* locals of the most recent extractor call
    processed,          \* files handed to an extractor so far, in call order
    collected,          \* return value of collect_tests
    distribution,       \* result of calculate_distribution
    score,              \* result of calculate_score
    report,             \* data of the generated report
    exit_code,          \* process exit status
    supplied_targets,   \* the targets argument of the monitor's constructor
    recommendations,    \* result of _generate_recommendations
    argv,               \* command line of the marker validator
    vfiles,             \* files the validator's loop has not reached yet
    violations,         \* the validator's self.violations
    total_tests_checked, \* the validator's self.total_tests_checked
    total_violations,   \* the validator's self.total_violations
    all_valid,          \* all_valid of validate_files
    vreport             \* data of the validator's report

vars == <<pc, indicators, dirs, files, targets, minimum_score, language,
          all_tests, tests_by_marker, test_files_scanned, pending, scan,
          processed, collected, distribution, score, report,
          exit_code, supplied_targets, recommendations, argv, vfiles,
          violations, total_tests_checked, total_violations, all_valid,
          vreport>>

\* state of the marker validator (validate-markers.py)
validatorVars == <<argv, vfiles, violations, total_tests_checked,
                   total_violations, all_valid, vreport>>

-----------------------------------------------------------------------------
(* Bounds of the model *)

MaxTests == 3        \* size of the test universe of the scoring specification
MaxFiles == 2        \* test files of a project (collection, extraction)
MaxLines == 3        \* lines of all test files of a project together
MaxMainFiles == 1    \* test files of a project when main is run with options
MaxMainLines == 2    \* their lines together
MaxIndicators == 1   \* indicator files present at once
MaxDirs == 1         \* test directories present at once
MaxCalls == 3        \* direct calls of an extractor

-----------------------------------------------------------------------------
(* Exact rational arithmetic standing for the float arithmetic of the code *)

RECURSIVE GCD(_, _)
GCD(a, b) == IF b = 0 THEN a ELSE GCD(b, a % b)

Abs(n) == IF n < 0 THEN -n ELSE n

Rat(n, d) ==
    LET g == GCD(Abs(n), Abs(d))
        s == IF d < 0 THEN -1 ELSE 1
    IN  [num |-> (s * n) \div g, den |-> (s * d) \div g]

RSub(a, b) == Rat(a.num * b.den - b.num * a.den, a.den * b.den)
RMul(a, b) == Rat(a.num * b.num, a.den * b.den)
RAbs(a) == [num |-> Abs(a.num), den |-> a.den]
RLess(a, b) == a.num * b.den < b.num * a.den
RLeq(a, b) == a.num * b.den <= b.num * a.den
RMax(a, b) == IF RLess(a, b) THEN b ELSE a
RMin(a, b) == IF RLess(b, a) THEN b ELSE a

Zero == Rat(0, 1)
Ten == Rat(10, 1)

\* Python's true division; the value with den = 0 stands for the
\* ZeroDivisionError raised when the divisor is 0.
DivFault == [num |-> 0, den |-> 0]
IsFault(r) == r.den = 0
PyDiv(a, b) == IF b = 0 THEN DivFault ELSE Rat(a, b)

-----------------------------------------------------------------------------
(* The registry and the configuration *)

Tiers == {"unit", "integration", "e2e"}

\* dict iteration order of tests_by_marker and of the targets built by main
TierOrder == <<"unit", "integration", "e2e">>

DEFAULT_TARGETS == [m \in Tiers |->
    CASE m = "unit" -> Rat(70, 1)
      [] m = "integration" -> Rat(20, 1)
      [] m = "e2e" -> Rat(10, 1)]

EmptyMarkers == [m \in Tiers |-> {}]

-----------------------------------------------------------------------------
(* Distribution calculator and pyramid scorer *)

\* keys of the targets dict, in iteration order
TargetKeys(tg) == SelectSeq(TierOrder, LAMBDA m : m \in DOMAIN tg)

\* calculate_distribution without the guard on an empty registry
calculate_distribution_unguarded(allT, tbm, tg) ==
    LET total == Cardinality(allT)
    IN  [marker \in DOMAIN tg |->
            LET q == PyDiv(Cardinality(tbm[marker]), total)
            IN  IF IsFault(q) THEN q ELSE RMul(q, Rat(100, 1))]

calculate_distribution(allT, tbm, tg) ==
    LET total == Cardinality(allT)
    IN  IF total = 0
        THEN [marker \in DOMAIN tg |-> Zero]
        ELSE [marker \in DOMAIN tg |->
                RMul(PyDiv(Cardinality(tbm[marker]), total), Rat(100, 1))]

\* score after the loop over the targets: 10.0 minus 0.1 per point of deviation
RECURSIVE DeviationPenalties(_, _, _, _)
DeviationPenalties(sc, keys, dist, tg) ==
    IF keys = <<>> THEN sc
    ELSE LET marker == Head(keys)
             actual == dist[marker]
             deviation == RAbs(RSub(actual, tg[marker]))
             penalty == RMul(deviation, Rat(1, 10))
         IN  DeviationPenalties(RSub(sc, penalty), Tail(keys), dist, tg)

RECURSIVE SumLen(_, _)
SumLen(keys, tbm) ==
    IF keys = <<>> THEN 0
    ELSE Cardinality(tbm[Head(keys)]) + SumLen(Tail(keys), tbm)

\* penalty for uncategorized tests, as the scorer computes it
UncategorizedPenalty(allT, tbm) ==
    LET categorized == SumLen(TierOrder, tbm)
        uncategorized == Cardinality(allT) - categorized
    IN  IF uncategorized > 0 /\ Cardinality(allT) > 0
        THEN RMul(RMul(PyDiv(uncategorized, Cardinality(allT)), Rat(100, 1)),
                  Rat(2, 10))
        ELSE Zero

\* the scorer's return statement without the clamp
Clamp_missing(sc) == sc

Clamp(sc) == RMax(Zero, RMin(Ten, sc))

calculate_score(dist, allT, tbm, tg) ==
    Clamp(RSub(DeviationPenalties(Ten, TargetKeys(tg), dist, tg),
               UncategorizedPenalty(allT, tbm)))

get_missing_markers_count(allT, tbm) ==
    Cardinality(allT \ UNION {tbm[m] : m \in DOMAIN tbm})

generate_json_report(sc, minsc, allT, tbm, scanned) ==
    [passed |-> RLeq(minsc, sc),
     total_tests |-> Cardinality(allT),
     test_files_scanned |-> scanned,
     missing_markers |-> get_missing_markers_count(allT, tbm)]

NoReport == [passed |-> FALSE, total_tests |-> 0, test_files_scanned |-> 0,
             missing_markers |-> 0]

CalculateDistribution ==
    /\ pc = "collected"
    /\ LET d == calculate_distribution(all_tests, tests_by_marker, targets)
       IN  IF \E m \in DOMAIN d : IsFault(d[m])
           THEN /\ pc' = "crashed"
                /\ exit_code' = 1
                /\ UNCHANGED distribution
           ELSE /\ pc' = "distributed"
                /\ distribution' = d
                /\ UNCHANGED exit_code
    /\ UNCHANGED <<supplied_targets, recommendations, validatorVars>>
    /\ UNCHANGED <<indicators, dirs, files, targets, minimum_score, language,
                   all_tests, tests_by_marker, test_files_scanned, pending,
                   scan, processed, collected, score, report>>

CalculateScore ==
    /\ pc = "distributed"
    /\ score' = calculate_score(distribution, all_tests, tests_by_marker, targets)
    /\ pc' = "scored"
    /\ UNCHANGED <<supplied_targets, recommendations, validatorVars>>
    /\ UNCHANGED <<indicators, dirs, files, targets, minimum_score, language,
                   all_tests, tests_by_marker, test_files_scanned, pending,
                   scan, processed, collected, distribution, report,
                   exit_code>>

\* one recommendation: the rule that produced it, the tier and the number of
\* tests its text names ("" and 0 where the text names none)
Rec(rule, marker, count) == [rule |-> rule, marker |-> marker, count |-> count]

HEALTHY == Rec("healthy", "", 0)

DELTA_TOLERANCE == Rat(5, 1)
LOW_UNIT == Rat(60, 1)
HIGH_E2E == Rat(15, 1)

\* the loop over self.targets.items(): one entry per tier off by more than 5
RECURSIVE DeltaRecommendations(_, _, _)
DeltaRecommendations(keys, dist, tg) ==
    IF keys = <<>> THEN <<>>
    ELSE LET marker == Head(keys)
             delta == RSub(dist[marker], tg[marker])
             rest == DeltaRecommendations(Tail(keys), dist, tg)
         IN  IF RLess(DELTA_TOLERANCE, RAbs(delta))
             THEN IF RLess(Zero, delta)
                  THEN <<Rec("reduce", marker, 0)>> \o rest
                  ELSE <<Rec("add_more", marker, 0)>> \o rest
             ELSE rest

\* a recommendation list that may come back empty
OrHealthy_missing(recs) == recs

\* if not recommendations: the single healthy message
OrHealthy(recs) == IF recs = <<>> THEN <<HEALTHY>> ELSE recs

\* the add-markers recommendation placed after the per-tier ones
generate_recommendations_markers_late(dist, allT, tbm, tg) ==
    LET missing == get_missing_markers_count(allT, tbm)
    IN  [raised |-> FALSE,
         list |-> OrHealthy(
            DeltaRecommendations(TargetKeys(tg), dist, tg)
            \o (IF missing > 0 THEN <<Rec("add_markers", "", missing)>>
                ELSE <<>>)
            \o (IF RLess(dist["unit"], LOW_UNIT)
                THEN <<Rec("low_unit", "", 0)>> ELSE <<>>)
            \o (IF RLess(HIGH_E2E, dist["e2e"])
                THEN <<Rec("e2e_over", "", 0)>> ELSE <<>>))]

\* _generate_recommendations: raised is TRUE where distribution["unit"] or
\* distribution["e2e"] raises KeyError
generate_recommendations(dist, allT, tbm, tg) ==
    LET missing == get_missing_markers_count(allT, tbm)
    IN  IF "unit" \notin DOMAIN dist \/ "e2e" \notin DOMAIN dist
        THEN [raised |-> TRUE, list |-> <<>>]
        ELSE [raised |-> FALSE,
              list |-> OrHealthy(
                 (IF missing > 0 THEN <<Rec("add_markers", "", missing)>>
                  ELSE <<>>)
                 \o DeltaRecommendations(TargetKeys(tg), dist, tg)
                 \o (IF RLess(dist["unit"], LOW_UNIT)
                     THEN <<Rec("low_unit", "", 0)>> ELSE <<>>)
                 \o (IF RLess(HIGH_E2E, dist["e2e"])
                     THEN <<Rec("e2e_over", "", 0)>> ELSE <<>>))]

\* one of the three report generators; each of them calls
\* _generate_recommendations, whose KeyError ends the run
GenerateReport ==
    /\ pc = "scored"
    /\ LET r == generate_recommendations(distribution, all_tests,
                                         tests_by_marker, targets)
       IN  IF r.raised
           THEN /\ pc' = "crashed"
                /\ exit_code' = 1
                /\ UNCHANGED <<report, recommendations>>
           ELSE /\ report' = generate_json_report(score, minimum_score,
                                     all_tests, tests_by_marker,
                                     test_files_scanned)
                /\ recommendations' = r.list
                /\ pc' = "reported"
                /\ UNCHANGED exit_code
    /\ UNCHANGED <<supplied_targets, validatorVars>>
    /\ UNCHANGED <<indicators, dirs, files, targets, minimum_score, language,
                   all_tests, tests_by_marker, test_files_scanned, pending,
                   scan, processed, collected, distribution, score>>

\* end of main: sys.exit(1) below the minimum, otherwise a normal return
ExitByScore ==
    /\ pc = "reported"
    /\ exit_code' = IF RLess(score, minimum_score) THEN 1 ELSE 0
    /\ pc' = "exited"
    /\ UNCHANGED <<supplied_targets, recommendations, validatorVars>>
    /\ UNCHANGED <<indicators, dirs, files, targets, minimum_score, language,
                   all_tests, tests_by_marker, test_files_scanned, pending,
                   scan, processed, collected, distribution, score,
                   report>>

-----------------------------------------------------------------------------
(* Marker extractors.  A file is a sequence of lines; a line is a record    *)
(* [kind, tier, name] that keeps what the extractors' patterns look at:     *)
(*   kind  "class"     convention A: ^class (Test\w+), name is the class     *)
(*         "decorator" convention A: the stripped line starts @pytest.mark.  *)
(*         "describe"  convention B: describe('<word>: ...', tier is the     *)
(*                     lower-cased word                                      *)
(*         "tag"       convention C: a // +build or //go:build comment,      *)
(*                     convention D: a // <tier> comment                     *)
(*         "test"      the language's test declaration, name is its name     *)
(*                     (convention D: the #[test] line with its fn)          *)
(*         "other"     any other line                                        *)
(*   tier  the tier keyword the line names, "none" when it names none       *)
(***************************************************************************)

CLASS_LOOKBACK == 10
TAG_LOOKBACK == 5

Max(a, b) == IF a < b THEN b ELSE a

Line(k, t, n) == [kind |-> k, tier |-> t, name |-> n]

OtherLine == Line("other", "none", "")

\* locals of an extractor at the start of a call (None is "" / "None")
FreshLocals == [class_markers |-> {}, function_markers |-> {},
                current_class |-> "", current_category |-> "None"]

\* locals that survive from the previous call instead of being re-created
InitLocals_kept(prev) == prev

\* function-level markers that survive from the previous call
InitLocals_pending_kept(prev) ==
    [FreshLocals EXCEPT !.function_markers = prev.function_markers]

InitLocals(prev) == FreshLocals

\* a test registered in its tier sets only
AddTest_tiers_only(st, id, markers) ==
    [st EXCEPT !.tbm = [m \in DOMAIN st.tbm |->
                          IF m \in markers THEN st.tbm[m] \cup {id} ELSE st.tbm[m]]]

\* self.all_tests.add(test_id), then one add per effective marker that is a key
AddTest(st, id, markers) ==
    [st EXCEPT !.all = st.all \cup {id},
               !.tbm = [m \in DOMAIN st.tbm |->
                          IF m \in markers THEN st.tbm[m] \cup {id} ELSE st.tbm[m]]]

\* a lookback that reaches one line further
ClassMarkersBefore_wide(lines, i) ==
    {lines[j].tier : j \in Max(1, i - CLASS_LOOKBACK - 1)..(i - 1)} \cap Tiers

\* tiers named by @pytest.mark.<tier> on the 10 lines before line i
ClassMarkersBefore(lines, i) ==
    {lines[j].tier : j \in Max(1, i - CLASS_LOOKBACK)..(i - 1)} \cap Tiers

PythonLine(st, fid, lines, i) ==
    LET line == lines[i]
        s1 == IF line.kind = "class"
              THEN [st EXCEPT !.scan.current_class = line.name,
                              !.scan.class_markers = ClassMarkersBefore(lines, i),
                              !.scan.function_markers = {}]
              ELSE st
        s2 == IF line.kind = "decorator" /\ line.tier \in Tiers
              THEN [s1 EXCEPT !.scan.function_markers = @ \cup {line.tier}]
              ELSE s1
    IN  IF line.kind = "test"
        THEN LET test_id == <<fid, s2.scan.current_class, line.name>>
                 effective_markers ==
                     s2.scan.class_markers \cup s2.scan.function_markers
                 s3 == AddTest(s2, test_id, effective_markers)
             IN  [s3 EXCEPT !.scan.function_markers = {}]
        ELSE s2

RECURSIVE PythonScan(_, _, _, _)
PythonScan(st, fid, lines, i) ==
    IF i > Len(lines) THEN st
    ELSE PythonScan(PythonLine(st, fid, lines, i), fid, lines, i + 1)

\* first loop of convention B: the last tier-labelled describe of the file wins
RECURSIVE DescribeScan(_, _, _)
DescribeScan(st, lines, i) ==
    IF i > Len(lines) THEN st
    ELSE LET line == lines[i]
             s1 == IF line.kind = "describe" /\ line.tier \in DOMAIN st.tbm
                   THEN [st EXCEPT !.scan.current_category = line.tier]
                   ELSE st
         IN  DescribeScan(s1, lines, i + 1)

\* second loop of convention B: every test gets the final current_category
RECURSIVE JsTestScan(_, _, _, _)
JsTestScan(st, fid, lines, i) ==
    IF i > Len(lines) THEN st
    ELSE LET line == lines[i]
             s1 == IF line.kind = "test"
                   THEN AddTest(st, <<fid, "", line.name>>,
                                IF st.scan.current_category = "None" THEN {}
                                ELSE {st.scan.current_category})
                   ELSE st
         IN  JsTestScan(s1, fid, lines, i + 1)

JavascriptScan(st, fid, lines) ==
    JsTestScan(DescribeScan(st, lines, 1), fid, lines, 1)

\* content[:pos].split("\n")[-5:]: the text of the declaration's own line
\* before the match (no comment in it) and the lines above it
LinesBefore(lines, i) ==
    LET before == Append(SubSeq(lines, 1, i - 1), OtherLine)
    IN  SubSeq(before, Max(1, Len(before) - TAG_LOOKBACK + 1), Len(before))

TagsBefore(lines, i) ==
    LET w == LinesBefore(lines, i)
    IN  {w[j].tier : j \in {k \in 1..Len(w) : w[k].kind = "tag"}} \cap Tiers

\* conventions C and D: the same scan, over the language's own comments
RECURSIVE TagScan(_, _, _, _)
TagScan(st, fid, lines, i) ==
    IF i > Len(lines) THEN st
    ELSE LET line == lines[i]
             s1 == IF line.kind = "test"
                   THEN AddTest(st, <<fid, "", line.name>>, TagsBefore(lines, i))
                   ELSE st
         IN  TagScan(s1, fid, lines, i + 1)

Scan(lang, st, fid, lines) ==
    CASE lang = "python" -> PythonScan(st, fid, lines, 1)
      [] lang = "javascript" -> JavascriptScan(st, fid, lines)
      [] lang = "go" -> TagScan(st, fid, lines, 1)
      [] lang = "rust" -> TagScan(st, fid, lines, 1)

\* an extractor whose read_text error escapes the method
ParseTestFile_uncaught(lang, st, fid, file) ==
    IF ~file.readable
    THEN [st EXCEPT !.raised = TRUE]
    ELSE Scan(lang, [st EXCEPT !.scan = InitLocals(st.scan)], fid, file.content)

\* _parse_<language>_test_file: read_text raises before anything is scanned;
\* the except clause prints a warning and returns
ParseTestFile(lang, st, fid, file) ==
    IF ~file.readable
    THEN st
    ELSE Scan(lang, [st EXCEPT !.scan = InitLocals(st.scan)], fid, file.content)

MonitorState == [all |-> all_tests, tbm |-> tests_by_marker, scan |-> scan,
                 raised |-> FALSE]

-----------------------------------------------------------------------------
(* Marker validator (validate-markers.py).  It reads convention A files     *)
(* with its own scan; a path is a number, 0 is a path whose name is not     *)
(* test_*.py, a positive number outside DOMAIN files is a missing file.     *)
(***************************************************************************)

\* state of the monitor that the validator never touches
monitorVars == <<indicators, dirs, files, targets, minimum_score, language,
                 all_tests, tests_by_marker, test_files_scanned, pending,
                 scan, processed, collected, distribution, score, report,
                 supplied_targets, recommendations>>

VALIDATOR_LOOKBACK == 11

\* one entry of a file's violation list: the line it names (0 for an entry
\* about the file itself) and what it reports
Violation(i, what) == [line |-> i, what |-> what]

\* locals of validate_file before its loop, with what the call adds to
\* self.total_tests_checked and self.total_violations
FreshValidation == [class_markers |-> {}, pending_markers |-> {},
                    violations |-> <<>>, checked |-> 0, counted |-> 0]

\* range(max(0, i - 11), i) over lines[j - 1]: the 11 lines before line i
ValidatorClassMarkers(lines, i) ==
    {lines[j].tier : j \in Max(1, i - VALIDATOR_LOOKBACK)..(i - 1)} \cap Tiers

ValidatorLine(v, lines, i) ==
    LET line == lines[i]
    IN  IF line.kind = "class"
        THEN [v EXCEPT !.class_markers = ValidatorClassMarkers(lines, i),
                       !.pending_markers = {}]
        ELSE LET v1 == IF line.kind = "decorator" /\ line.tier \in Tiers
                       THEN [v EXCEPT !.pending_markers = @ \cup {line.tier}]
                       ELSE v
             IN  IF line.kind = "test"
                 THEN LET effective_markers ==
                              v1.pending_markers \cup v1.class_markers
                          v2 == [v1 EXCEPT !.checked = @ + 1]
                          v3 == IF effective_markers = {}
                                THEN [v2 EXCEPT
                                        !.violations = Append(@,
                                            Violation(i, "missing_marker")),
                                        !.counted = @ + 1]
                                ELSE v2
                      IN  [v3 EXCEPT !.pending_markers = {}]
                 ELSE v1

RECURSIVE ValidatorScan(_, _, _)
ValidatorScan(v, lines, i) ==
    IF i > Len(lines) THEN v
    ELSE ValidatorScan(ValidatorLine(v, lines, i), lines, i + 1)

\* validate_file: (is_valid, violations) and the two increments
validate_file(fs, f) ==
    IF f \notin DOMAIN fs
    THEN [valid |-> FALSE, violations |-> <<Violation(0, "not_found")>>,
          checked |-> 0, counted |-> 0]
    ELSE IF ~fs[f].readable
    THEN [valid |-> FALSE, violations |-> <<Violation(0, "read_error")>>,
          checked |-> 0, counted |-> 0]
    ELSE LET v == ValidatorScan(FreshValidation, fs[f].content, 1)
         IN  [valid |-> v.violations = <<>>, violations |-> v.violations,
              checked |-> v.checked, counted |-> v.counted]

VALIDATOR_TEST_DIRS == {"tests", "test", "src/tests"}

\* find_all_test_files: the test_*.py files below the first test directory
\* that exists, none when none exists
find_all_test_files(ds, fs) ==
    IF VALIDATOR_TEST_DIRS \cap ds = {} THEN <<>>
    ELSE [i \in 1..Len(fs) |-> i]

\* f.name.startswith("test_") and f.suffix == ".py"
IsTestFileName(f) == f # 0

get_json_report(viol, checked, counted) ==
    [valid |-> DOMAIN viol = {},
     total_tests_checked |-> checked,
     total_violations |-> counted,
     violations |-> viol]

NoValidatorReport == get_json_report(<<>>, 0, 0)

\* the parsed command line: --all, and the paths named
Argv(all, paths) == [all |-> all, files |-> paths]

NoArgv == Argv(FALSE, <<>>)

\* the validator as __init__ leaves it
ValidatorConstructed ==
    /\ vfiles = <<>>
    /\ violations = <<>>
    /\ total_tests_checked = 0
    /\ total_violations = 0
    /\ all_valid = TRUE
    /\ vreport = NoValidatorReport

\* return 0 if is_valid else 1
ExitStatus(is_valid) == IF is_valid THEN 0 ELSE 1

\* a validator that fails a run in which nothing was there to validate
NothingToValidate_fails == ExitStatus(FALSE)

\* main's return 0 after "No test files found" and after the name filter
\* left no file
NothingToValidate == 0

\* main up to the call of validate_files
ValidatorMain ==
    /\ pc = "vmain"
    /\ LET found == find_all_test_files(dirs, files)
           named == IF argv.all THEN found ELSE argv.files
           test_files == SelectSeq(named, IsTestFileName)
       IN  IF argv.all /\ found = <<>>
           THEN /\ exit_code' = NothingToValidate
                /\ pc' = "exited"
                /\ UNCHANGED vfiles
           ELSE IF ~argv.all /\ argv.files = <<>>
           THEN /\ exit_code' = 2
                /\ pc' = "exited"
                /\ UNCHANGED vfiles
           ELSE IF test_files = <<>>
           THEN /\ exit_code' = NothingToValidate
                /\ pc' = "exited"
                /\ UNCHANGED vfiles
           ELSE /\ vfiles' = test_files
                /\ pc' = "validating"
                /\ UNCHANGED exit_code
    /\ UNCHANGED <<argv, violations, total_tests_checked, total_violations,
                   all_valid, vreport>>
    /\ UNCHANGED monitorVars

\* one call of validate_file on path f, with what validate_files does with
\* its result
CallValidator(f) ==
    LET r == validate_file(files, f)
    IN  /\ total_tests_checked' = total_tests_checked + r.checked
        /\ total_violations' = total_violations + r.counted
        /\ IF ~r.valid
           THEN /\ all_valid' = FALSE
                /\ violations' = [p \in DOMAIN violations \cup {f} |->
                                    IF p = f THEN r.violations
                                    ELSE violations[p]]
           ELSE UNCHANGED <<all_valid, violations>>

\* one iteration of the loop of validate_files
ValidateNextFile ==
    /\ pc = "validating"
    /\ vfiles # <<>>
    /\ CallValidator(Head(vfiles))
    /\ vfiles' = Tail(vfiles)
    /\ UNCHANGED <<pc, exit_code, argv, vreport>>
    /\ UNCHANGED monitorVars

\* validate_files returns all_valid; main reports and returns the status
ValidatorExit ==
    /\ pc = "validating"
    /\ vfiles = <<>>
    /\ vreport' = get_json_report(violations, total_tests_checked,
                                  total_violations)
    /\ exit_code' = ExitStatus(all_valid)
    /\ pc' = "exited"
    /\ UNCHANGED <<argv, vfiles, violations, total_tests_checked,
                   total_violations, all_valid>>
    /\ UNCHANGED monitorVars

-----------------------------------------------------------------------------
(* Scoring specification: any registry, any targets over the three tiers *)

TestName == "test_a"

ScoreTests == {<<f, "", TestName>> : f \in 1..MaxTests}

TargetValues == {0, 10, 20, 70}

\* a unit target that a registry of unit tests misses by exactly 5 points
UnitTargetValues == TargetValues \cup {95}

TargetChoices ==
    {[m \in Tiers |-> CASE m = "unit" -> Rat(u, 1)
                        [] m = "integration" -> Rat(i, 1)
                        [] m = "e2e" -> Rat(e, 1)] :
        u \in UnitTargetValues, i \in TargetValues, e \in TargetValues}

DEFAULT_MINIMUM_SCORE == Rat(55, 10)

InitScore ==
    /\ pc = "collected"
    /\ indicators = {}
    /\ dirs = {}
    /\ files = <<>>
    /\ targets \in TargetChoices
    /\ minimum_score = DEFAULT_MINIMUM_SCORE
    /\ language = "python"
    /\ all_tests \in SUBSET ScoreTests
    /\ tests_by_marker \in [Tiers -> SUBSET all_tests]
    /\ test_files_scanned = 0
    /\ pending = {}
    /\ scan = FreshLocals
    /\ processed = <<>>
    /\ collected = TRUE
    /\ distribution = [m \in Tiers |-> Zero]
    /\ score = Zero
    /\ report = NoReport
    /\ exit_code = -1
    /\ supplied_targets = targets
    /\ recommendations = <<>>
    /\ argv = NoArgv
    /\ ValidatorConstructed

NextScore ==
    \/ CalculateDistribution
    \/ CalculateScore
    \/ GenerateReport

SpecScore == InitScore /\ [][NextScore]_vars

-----------------------------------------------------------------------------
(* Test collector and main *)

Languages == {"python", "javascript", "go", "rust"}

Indicators == {"pyproject.toml", "pytest.ini", "package.json", "go.mod",
               "Cargo.toml"}

PYTHON_TEST_DIRS == {"tests", "src/tests"}
JS_TEST_DIRS == {"tests", "test", "__tests__", "src/__tests__"}
DirNames == PYTHON_TEST_DIRS \cup JS_TEST_DIRS

detect_language(ind) ==
    IF "pyproject.toml" \in ind \/ "pytest.ini" \in ind THEN "python"
    ELSE IF "package.json" \in ind THEN "javascript"
    ELSE IF "go.mod" \in ind THEN "go"
    ELSE IF "Cargo.toml" \in ind THEN "rust"
    ELSE "python"

\* the head of _collect_<language>_tests: found is FALSE where the collector
\* returns False, test_files is what its glob yields.  The files of the model
\* are the files of the language's pattern below the place the glob searches.
FindTestFiles(lang, ds, fs) ==
    CASE lang = "python" ->
            IF "tests" \notin ds /\ "src/tests" \notin ds
            THEN [found |-> FALSE, test_files |-> {}]
            ELSE [found |-> TRUE, test_files |-> DOMAIN fs]
      [] lang = "javascript" ->
            [found |-> TRUE,
             test_files |-> IF JS_TEST_DIRS \cap ds = {} THEN {} ELSE DOMAIN fs]
      [] lang = "go" -> [found |-> TRUE, test_files |-> DOMAIN fs]
      [] lang = "rust" -> [found |-> TRUE, test_files |-> DOMAIN fs]

\* collect_tests up to the loop over the test files
CollectTests ==
    /\ pc = "main"
    /\ LET lang == detect_language(indicators)
           r == FindTestFiles(lang, dirs, files)
       IN  /\ language' = lang
           /\ IF r.found
              THEN /\ test_files_scanned' = Cardinality(r.test_files)
                   /\ pending' = r.test_files
                   /\ pc' = "parsing"
                   /\ UNCHANGED collected
              ELSE /\ collected' = FALSE
                   /\ pc' = "collect_failed"
                   /\ UNCHANGED <<test_files_scanned, pending>>
    /\ UNCHANGED <<supplied_targets, recommendations, validatorVars>>
    /\ UNCHANGED <<indicators, dirs, files, targets, minimum_score, all_tests,
                   tests_by_marker, scan, processed, distribution,
                   score, report, exit_code>>

\* one call of the language's extractor on file f
CallExtractor(f) ==
    LET r == ParseTestFile(language, MonitorState, f, files[f])
    IN  /\ all_tests' = r.all
        /\ tests_by_marker' = r.tbm
        /\ scan' = r.scan
        /\ processed' = Append(processed, f)
        /\ IF r.raised
           THEN pc' = "crashed" /\ exit_code' = 1
           ELSE UNCHANGED <<pc, exit_code>>

\* one iteration of the collector's loop; the glob's order is the file system's
ParseNextFile ==
    /\ pc = "parsing"
    /\ \E f \in pending :
          /\ CallExtractor(f)
          /\ pending' = pending \ {f}
    /\ UNCHANGED <<supplied_targets, recommendations, validatorVars>>
    /\ UNCHANGED <<indicators, dirs, files, targets, minimum_score, language,
                   test_files_scanned, collected, distribution, score, report>>

\* the loop is over: return True
CollectReturn ==
    /\ pc = "parsing"
    /\ pending = {}
    /\ collected' = TRUE
    /\ pc' = "collected"
    /\ UNCHANGED <<supplied_targets, recommendations, validatorVars>>
    /\ UNCHANGED <<indicators, dirs, files, targets, minimum_score, language,
                   all_tests, tests_by_marker, test_files_scanned, pending,
                   scan, processed, distribution, score, report,
                   exit_code>>

\* main: if not monitor.collect_tests(): sys.exit(1)
ExitCollectFailed ==
    /\ pc = "collect_failed"
    /\ exit_code' = 1
    /\ pc' = "exited"
    /\ UNCHANGED <<supplied_targets, recommendations, validatorVars>>
    /\ UNCHANGED <<indicators, dirs, files, targets, minimum_score, language,
                   all_tests, tests_by_marker, test_files_scanned, pending,
                   scan, processed, collected, distribution, score,
                   report>>

-----------------------------------------------------------------------------
(* Inputs: projects and command lines *)

ClassName == "TestA"

Alphabet(lang) ==
    CASE lang = "python" ->
            {Line("class", "none", ClassName), Line("test", "none", TestName),
             OtherLine} \cup {Line("decorator", t, "") : t \in Tiers}
      [] lang = "javascript" ->
            {Line("test", "none", TestName), OtherLine}
            \cup {Line("describe", t, "") : t \in Tiers \cup {"feature"}}
      [] lang \in {"go", "rust"} ->
            {Line("test", "none", TestName), OtherLine}
            \cup {Line("tag", t, "") : t \in Tiers}

\* a readable file of at most budget lines, or a file read_text raises on
\* (OSError, UnicodeDecodeError), whose content is never seen
FileChoices(lang, budget) ==
    {[content |-> c, readable |-> TRUE] :
        c \in UNION {[1..l -> Alphabet(lang)] : l \in 0..budget}}
    \cup {[content |-> <<>>, readable |-> FALSE]}

RECURSIVE FileSeqs(_, _, _)
FileSeqs(lang, n, budget) ==
    IF n = 0 THEN {<<>>}
    ELSE UNION {{<<f>> \o rest :
                    rest \in FileSeqs(lang, n - 1, budget - Len(f.content))} :
                f \in FileChoices(lang, budget)}

\* the test files of a project: at most maxFiles files, budget lines together
FileTrees(lang, maxFiles, budget) ==
    UNION {FileSeqs(lang, n, budget) : n \in 0..maxFiles}

SearchedDirExists(lang, ds) ==
    CASE lang = "python" -> PYTHON_TEST_DIRS \cap ds # {}
      [] lang = "javascript" -> JS_TEST_DIRS \cap ds # {}
      [] lang \in {"go", "rust"} -> TRUE

ProjectFiles(lang, ds, maxFiles, budget) ==
    IF SearchedDirExists(lang, ds) THEN FileTrees(lang, maxFiles, budget)
    ELSE {<<>>}

IndicatorSets == {S \in SUBSET Indicators : Cardinality(S) <= MaxIndicators}
DirSets == {S \in SUBSET DirNames : Cardinality(S) <= MaxDirs}

ZERO_TARGETS == [m \in Tiers |-> Zero]

\* command lines: the defaults, --minimum-score 0, and all three targets 0
CommandLines ==
    {[targets |-> DEFAULT_TARGETS, minimum_score |-> DEFAULT_MINIMUM_SCORE],
     [targets |-> DEFAULT_TARGETS, minimum_score |-> Zero],
     [targets |-> ZERO_TARGETS, minimum_score |-> DEFAULT_MINIMUM_SCORE]}

\* the monitor as __init__ leaves it, before main calls collect_tests
Constructed ==
    /\ all_tests = {}
    /\ tests_by_marker = EmptyMarkers
    /\ test_files_scanned = 0
    /\ pending = {}
    /\ scan = FreshLocals
    /\ processed = <<>>
    /\ collected = FALSE
    /\ distribution = [m \in Tiers |-> Zero]
    /\ score = Zero
    /\ report = NoReport
    /\ exit_code = -1
    /\ recommendations = <<>>
    /\ argv = NoArgv
    /\ ValidatorConstructed

\* main run with any of the command lines on a small project
Init ==
    /\ pc = "main"
    /\ indicators \in IndicatorSets
    /\ dirs \in DirSets
    /\ files \in ProjectFiles(detect_language(indicators), dirs,
                              MaxMainFiles, MaxMainLines)
    /\ \E cl \in CommandLines :
          targets = cl.targets /\ minimum_score = cl.minimum_score
    /\ supplied_targets = targets
    /\ language = "None"
    /\ Constructed

Next ==
    \/ CollectTests
    \/ ParseNextFile
    \/ CollectReturn
    \/ ExitCollectFailed
    \/ CalculateDistribution
    \/ CalculateScore
    \/ GenerateReport
    \/ ExitByScore

Spec == Init /\ [][Next]_vars

\* main run with the default options on a larger project
InitCollect ==
    /\ pc = "main"
    /\ indicators \in IndicatorSets
    /\ dirs \in {{}, {"tests"}}
    /\ files \in ProjectFiles(detect_language(indicators), dirs,
                              MaxFiles, MaxLines)
    /\ targets = DEFAULT_TARGETS
    /\ supplied_targets = targets
    /\ minimum_score = DEFAULT_MINIMUM_SCORE
    /\ language = "None"
    /\ Constructed

SpecCollect == InitCollect /\ [][Next]_vars

\* the extractor of the project's language called directly, on any of the
\* project's files, any number of times
InitExtract ==
    /\ pc = "extracting"
    /\ indicators = {}
    /\ dirs = {"tests"}
    /\ language \in Languages
    /\ files \in FileTrees(language, MaxFiles, MaxLines)
    /\ Constructed
    /\ targets = DEFAULT_TARGETS
    /\ supplied_targets = targets
    /\ minimum_score = DEFAULT_MINIMUM_SCORE

ExtractCall ==
    /\ pc = "extracting"
    /\ Len(processed) < MaxCalls
    /\ \E f \in DOMAIN files : CallExtractor(f)
    /\ UNCHANGED <<supplied_targets, recommendations, validatorVars>>
    /\ UNCHANGED <<indicators, dirs, files, targets, minimum_score, language,
                   test_files_scanned, pending, collected, distribution, score,
                   report>>

NextExtract == ExtractCall

SpecExtract == InitExtract /\ [][NextExtract]_vars

-----------------------------------------------------------------------------
(* The methods of a monitor whose collection has finished, called in any    *)
(* order and any number of times                                            *)

\* get_missing_markers_count whose accumulator is the first tier's own set
MissingMarkersCall_aliased(allT, tbm) ==
    LET first == TierOrder[1]
        categorized == UNION {tbm[m] : m \in DOMAIN tbm}
    IN  [count |-> Cardinality(allT \ categorized),
         tbm |-> [tbm EXCEPT ![first] = categorized]]

\* a call of get_missing_markers_count: its result, and the tier sets after
\* it (update() grows the fresh set categorized, never a tier's set)
MissingMarkersCall(allT, tbm) ==
    [count |-> get_missing_markers_count(allT, tbm), tbm |-> tbm]

ApiCalculateDistribution ==
    /\ pc = "api"
    /\ distribution' =
           calculate_distribution(all_tests, tests_by_marker, targets)
    /\ UNCHANGED <<pc, exit_code, all_tests, tests_by_marker,
                   test_files_scanned, score, report, recommendations>>
    /\ UNCHANGED <<indicators, dirs, files, targets, minimum_score, language,
                   pending, scan, processed, collected, supplied_targets>>
    /\ UNCHANGED validatorVars

ApiCalculateScore ==
    /\ pc = "api"
    /\ score' =
           calculate_score(distribution, all_tests, tests_by_marker, targets)
    /\ UNCHANGED <<pc, exit_code, all_tests, tests_by_marker,
                   test_files_scanned, distribution, report, recommendations>>
    /\ UNCHANGED <<indicators, dirs, files, targets, minimum_score, language,
                   pending, scan, processed, collected, supplied_targets>>
    /\ UNCHANGED validatorVars

ApiMissingMarkersCount ==
    /\ pc = "api"
    /\ LET r == MissingMarkersCall(all_tests, tests_by_marker)
       IN  /\ report' = [report EXCEPT !.missing_markers = r.count]
           /\ tests_by_marker' = r.tbm
    /\ UNCHANGED <<pc, exit_code, all_tests, test_files_scanned, distribution,
                   score, recommendations>>
    /\ UNCHANGED <<indicators, dirs, files, targets, minimum_score, language,
                   pending, scan, processed, collected, supplied_targets>>
    /\ UNCHANGED validatorVars

ApiGenerateRecommendations ==
    /\ pc = "api"
    /\ LET r == MissingMarkersCall(all_tests, tests_by_marker)
       IN  /\ recommendations' =
                  generate_recommendations(distribution, all_tests,
                                           r.tbm, targets).list
           /\ tests_by_marker' = r.tbm
    /\ UNCHANGED <<pc, exit_code, all_tests, test_files_scanned, distribution,
                   score, report>>
    /\ UNCHANGED <<indicators, dirs, files, targets, minimum_score, language,
                   pending, scan, processed, collected, supplied_targets>>
    /\ UNCHANGED validatorVars

\* a report generator: it calls get_missing_markers_count, then
\* _generate_recommendations, which calls it again
ApiGenerateReport ==
    /\ pc = "api"
    /\ LET r1 == MissingMarkersCall(all_tests, tests_by_marker)
           r2 == MissingMarkersCall(all_tests, r1.tbm)
       IN  /\ report' = generate_json_report(score, minimum_score, all_tests,
                                             r1.tbm, test_files_scanned)
           /\ recommendations' =
                  generate_recommendations(distribution, all_tests,
                                           r2.tbm, targets).list
           /\ tests_by_marker' = r2.tbm
    /\ UNCHANGED <<pc, exit_code, all_tests, test_files_scanned, distribution,
                   score>>
    /\ UNCHANGED <<indicators, dirs, files, targets, minimum_score, language,
                   pending, scan, processed, collected, supplied_targets>>
    /\ UNCHANGED validatorVars

MaxScanned == 1      \* test files the finished collection has counted

InitApi ==
    /\ pc = "api"
    /\ indicators = {}
    /\ dirs = {}
    /\ files = <<>>
    /\ targets = DEFAULT_TARGETS
    /\ supplied_targets = targets
    /\ minimum_score = DEFAULT_MINIMUM_SCORE
    /\ language = "python"
    /\ all_tests \in SUBSET ScoreTests
    /\ tests_by_marker \in [Tiers -> SUBSET all_tests]
    /\ test_files_scanned \in 0..MaxScanned
    /\ pending = {}
    /\ scan = FreshLocals
    /\ processed = <<>>
    /\ collected = TRUE
    /\ distribution = [m \in Tiers |-> Zero]
    /\ score = Zero
    /\ report = NoReport
    /\ exit_code = -1
    /\ recommendations = <<>>
    /\ argv = NoArgv
    /\ ValidatorConstructed

NextApi ==
    \/ ApiCalculateDistribution
    \/ ApiCalculateScore
    \/ ApiMissingMarkersCount
    \/ ApiGenerateRecommendations
    \/ ApiGenerateReport

SpecApi == InitApi /\ [][NextApi]_vars

-----------------------------------------------------------------------------
(* A monitor constructed by a caller with a target mapping of its own:      *)
(* empty, without some tier, or with negative values                        *)

SuppliedValues == {-10, 20, 70}

SuppliedChoices ==
    UNION {[D -> {Rat(v, 1) : v \in SuppliedValues}] : D \in SUBSET Tiers}

\* self.targets = targets or self.DEFAULT_TARGETS: an empty dict is falsy
ConstructTargets(supplied) ==
    IF DOMAIN supplied = {} THEN DEFAULT_TARGETS ELSE supplied

InitTargets ==
    /\ pc = "collected"
    /\ indicators = {}
    /\ dirs = {}
    /\ files = <<>>
    /\ supplied_targets \in SuppliedChoices
    /\ targets = ConstructTargets(supplied_targets)
    /\ minimum_score = DEFAULT_MINIMUM_SCORE
    /\ language = "python"
    /\ all_tests \in SUBSET ScoreTests
    /\ tests_by_marker \in [Tiers -> SUBSET all_tests]
    /\ test_files_scanned = 0
    /\ pending = {}
    /\ scan = FreshLocals
    /\ processed = <<>>
    /\ collected = TRUE
    /\ distribution = [m \in Tiers |-> Zero]
    /\ score = Zero
    /\ report = NoReport
    /\ exit_code = -1
    /\ recommendations = <<>>
    /\ argv = NoArgv
    /\ ValidatorConstructed

SpecTargets == InitTargets /\ [][NextScore]_vars

-----------------------------------------------------------------------------
(* One convention A file given to the extractor of the monitor and to the   *)
(* validator, each on a fresh instance                                      *)

MaxPyLines == 5      \* lines of a file written freely
MaxPadLines == 4     \* lines of a file that holds a run of other lines
MaxGap == 11         \* length of the run of other lines

TestNameB == "test_b"

PythonAlphabet == Alphabet("python") \cup {Line("test", "none", TestNameB)}

PaddedAlphabet ==
    {Line("class", "none", ClassName), Line("test", "none", TestName),
     Line("decorator", "unit", ""), Line("decorator", "integration", "")}

\* base with a run of gap lines that are neither class, marker nor test
\* after its first p lines
Padded(base, p, gap) ==
    LET q == IF p < Len(base) THEN p ELSE Len(base)
    IN  SubSeq(base, 1, q) \o [i \in 1..gap |-> OtherLine]
        \o SubSeq(base, q + 1, Len(base))

PythonContents ==
    UNION {[1..l -> PythonAlphabet] : l \in 0..MaxPyLines}
    \cup {Padded(base, p, gap) :
            base \in UNION {[1..l -> PaddedAlphabet] : l \in 1..MaxPadLines},
            p \in 0..MaxPadLines, gap \in 1..MaxGap}

InitPython ==
    /\ pc = "comparing"
    /\ indicators = {}
    /\ dirs = {"tests"}
    /\ language = "python"
    /\ \E c \in PythonContents : files = <<[content |-> c, readable |-> TRUE]>>
    /\ targets = DEFAULT_TARGETS
    /\ supplied_targets = targets
    /\ minimum_score = DEFAULT_MINIMUM_SCORE
    /\ all_tests = {}
    /\ tests_by_marker = EmptyMarkers
    /\ test_files_scanned = 0
    /\ pending = {}
    /\ scan = FreshLocals
    /\ processed = <<>>
    /\ collected = FALSE
    /\ distribution = [m \in Tiers |-> Zero]
    /\ score = Zero
    /\ report = NoReport
    /\ exit_code = -1
    /\ recommendations = <<>>
    /\ argv = NoArgv
    /\ vfiles = <<1>>
    /\ violations = <<>>
    /\ total_tests_checked = 0
    /\ total_violations = 0
    /\ all_valid = TRUE
    /\ vreport = NoValidatorReport

\* monitor._parse_python_test_file(file)
ExtractFile ==
    /\ pc = "comparing"
    /\ processed = <<>>
    /\ CallExtractor(1)
    /\ UNCHANGED <<indicators, dirs, files, targets, minimum_score, language,
                   test_files_scanned, pending, collected, distribution, score,
                   report, supplied_targets, recommendations>>
    /\ UNCHANGED validatorVars

\* validator.validate_files([file])
ValidateFile ==
    /\ pc = "comparing"
    /\ vfiles # <<>>
    /\ CallValidator(Head(vfiles))
    /\ vfiles' = Tail(vfiles)
    /\ UNCHANGED <<pc, exit_code, argv, vreport>>
    /\ UNCHANGED monitorVars

NextPython ==
    \/ ExtractFile
    \/ ValidateFile

SpecPython == InitPython /\ [][NextPython]_vars

-----------------------------------------------------------------------------
(* One convention C file, with a run of other lines between a build         *)
(* constraint comment and a declaration, given to the extractor             *)

TagAlphabet ==
    {Line("test", "none", TestName), Line("tag", "unit", ""),
     Line("tag", "e2e", "")}

TagContents ==
    UNION {[1..l -> TagAlphabet] : l \in 0..MaxPadLines}
    \cup {Padded(base, p, gap) :
            base \in UNION {[1..l -> TagAlphabet] : l \in 1..MaxPadLines},
            p \in 0..MaxPadLines, gap \in 1..MaxGap}

InitGo ==
    /\ pc = "extracting"
    /\ indicators = {"go.mod"}
    /\ dirs = {}
    /\ language = "go"
    /\ \E c \in TagContents : files = <<[content |-> c, readable |-> TRUE]>>
    /\ Constructed
    /\ targets = DEFAULT_TARGETS
    /\ supplied_targets = targets
    /\ minimum_score = DEFAULT_MINIMUM_SCORE

SpecGo == InitGo /\ [][NextExtract]_vars

-----------------------------------------------------------------------------
(* The marker validator run from its command line on a convention A project *)

MaxArgs == 2         \* paths named on the validator's command line
MaxVFiles == 1       \* test files of the validated project
MaxVLines == 2       \* their lines together

\* paths a command line names: 0 is not a test file's name, a number above
\* the project's files is a test file that does not exist
ArgPaths == 0..(MaxVFiles + 1)

Argvs ==
    {Argv(TRUE, <<>>)}
    \cup {Argv(FALSE, a) : a \in UNION {[1..n -> ArgPaths] : n \in 0..MaxArgs}}

InitValidate ==
    /\ pc = "vmain"
    /\ indicators = {}
    /\ dirs \in {{}, {"tests"}}
    /\ files \in IF VALIDATOR_TEST_DIRS \cap dirs = {} THEN {<<>>}
                 ELSE FileTrees("python", MaxVFiles, MaxVLines)
    /\ targets = DEFAULT_TARGETS
    /\ supplied_targets = targets
    /\ minimum_score = DEFAULT_MINIMUM_SCORE
    /\ language = "None"
    /\ all_tests = {}
    /\ tests_by_marker = EmptyMarkers
    /\ test_files_scanned = 0
    /\ pending = {}
    /\ scan = FreshLocals
    /\ processed = <<>>
    /\ collected = FALSE
    /\ distribution = [m \in Tiers |-> Zero]
    /\ score = Zero
    /\ report = NoReport
    /\ exit_code = -1
    /\ recommendations = <<>>
    /\ argv \in Argvs
    /\ ValidatorConstructed

NextValidate ==
    \/ ValidatorMain
    \/ ValidateNextFile
    \/ ValidatorExit

SpecValidate == InitValidate /\ [][NextValidate]_vars

-----------------------------------------------------------------------------
(* Properties of the calculator and the scorer *)

RAdd(a, b) == Rat(a.num * b.den + b.num * a.den, a.den * b.den)

\* the score before the clamp, as the scorer accumulates it
RawScore ==
    RSub(DeviationPenalties(Ten, TargetKeys(targets), distribution, targets),
         UncategorizedPenalty(all_tests, tests_by_marker))

\* C1: whatever the registry and the targets over the three tiers, the
\* value calculate_score returns lies in the closed range [0.0, 10.0].
ScoreWithinBounds ==
    pc = "scored" => RLeq(Zero, score) /\ RLeq(score, Ten)

\* a registry whose penalties exceed 10, so that the clamp decides the result
ScoreClampedToZero ==
    /\ pc = "scored"
    /\ RLess(RawScore, Zero)
    /\ score = Zero

Categorized(tbm) == UNION {tbm[m] : m \in Tiers}

\* percentage of the tests that belong to no tier at all
UnionUncategorizedPct(allT, tbm) ==
    IF allT = {} THEN Zero
    ELSE Rat(100 * (Cardinality(allT) - Cardinality(Categorized(tbm))),
             Cardinality(allT))

Deviation(dist, tg, m) == RAbs(RSub(dist[m], tg[m]))

SumDeviation(dist, tg) ==
    RAdd(Deviation(dist, tg, "unit"),
         RAdd(Deviation(dist, tg, "integration"), Deviation(dist, tg, "e2e")))

LinearPenaltyScore(dist, tg, uncatPct) ==
    LET raw == RSub(RSub(Ten, RMul(Rat(1, 10), SumDeviation(dist, tg))),
                    RMul(Rat(2, 10), uncatPct))
    IN  IF RLess(raw, Zero) THEN Zero
        ELSE IF RLess(Ten, raw) THEN Ten ELSE raw

\* C2: for every registry, overlapping tiers included, the score equals
\* clamp(10 - 0.1 * sum of |actual - target| - 0.2 * U, 0, 10), where U is
\* the percentage of tests outside the union of the three tier sets.
ScoreUsesUnionOfTiers ==
    pc = "scored" =>
        score = LinearPenaltyScore(distribution, targets,
                    UnionUncategorizedPct(all_tests, tests_by_marker))

\* C3: each tier's percentage is 100 * |tests_by_marker[tier]| / |all_tests|,
\* and exactly 0 when all_tests is empty; with an empty registry the scorer
\* applies no uncategorized penalty and nothing divides by zero.
DistributionIsShareOfAllTests ==
    /\ pc # "crashed"
    /\ pc \in {"distributed", "scored"} =>
          \A m \in Tiers :
              IF all_tests = {}
              THEN distribution[m] = Zero
              ELSE /\ distribution[m].den > 0
                   /\ distribution[m].num * Cardinality(all_tests)
                        = 100 * Cardinality(tests_by_marker[m]) * distribution[m].den
    /\ (pc = "scored" /\ all_tests = {}) =>
          score = LinearPenaltyScore([m \in Tiers |-> Zero], targets, Zero)

\* an empty registry has been scored, and the targets leave a positive score
EmptyRegistryScored ==
    /\ pc = "scored"
    /\ all_tests = {}
    /\ \A m \in Tiers : distribution[m] = Zero
    /\ RLess(Zero, score)

\* C5: with all_tests, the targets and the set of tests in no tier held
\* fixed, changing the membership of one tier so that this tier's deviation
\* from its target grows never yields a greater score.
ScoreMonotoneInDeviation ==
    pc = "scored" =>
        \A m \in Tiers : \A S \in SUBSET all_tests :
            LET tbm2 == [tests_by_marker EXCEPT ![m] = S]
                dist2 == calculate_distribution(all_tests, tbm2, targets)
            IN  (/\ all_tests \ Categorized(tbm2)
                        = all_tests \ Categorized(tests_by_marker)
                 /\ RLess(Deviation(distribution, targets, m),
                          Deviation(dist2, targets, m)))
                => RLeq(calculate_score(dist2, all_tests, tbm2, targets), score)

-----------------------------------------------------------------------------
(* Properties of the extractors and the collector *)

Last(seq) == seq[Len(seq)]

Range(seq) == {seq[k] : k \in 1..Len(seq)}

\* C4: after any sequence of per-file extractions every tier set is a subset
\* of all_tests, so the union of the tier sets is no larger than all_tests,
\* and the tier keys are exactly unit, integration and e2e.
TierSetsWithinAllTests ==
    /\ DOMAIN tests_by_marker = Tiers
    /\ \A m \in Tiers : tests_by_marker[m] \subseteq all_tests
    /\ Cardinality(Categorized(tests_by_marker)) <= Cardinality(all_tests)

\* extraction has registered a test in a tier and another test in none
TieredAndUntieredTests ==
    /\ processed # <<>>
    /\ Categorized(tests_by_marker) # {}
    /\ all_tests \ Categorized(tests_by_marker) # {}

\* C6: running the extractor again on a file it has already been run on
\* leaves all_tests and every tier set as they were.
ExtractionIdempotent ==
    [][(/\ Len(processed') = Len(processed) + 1
        /\ Last(processed') \in Range(processed))
       => (all_tests' = all_tests /\ tests_by_marker' = tests_by_marker)]_vars

\* one file with a tiered test has been extracted twice, and no other file
SameFileExtractedTwice ==
    /\ Len(processed) >= 2
    /\ \A k \in 1..Len(processed) : processed[k] = processed[1]
    /\ Categorized(tests_by_marker) # {}

\* the collector's loop run over the files in ascending order of their ids
RECURSIVE CollectInOrder(_, _, _)
CollectInOrder(lang, st, f) ==
    IF f > Len(files) THEN st
    ELSE CollectInOrder(lang, ParseTestFile(lang, st, f, files[f]), f + 1)

\* C7: the final registry does not depend on the order in which the
\* collector processes the files: it is the registry the ascending order
\* gives, whatever order the file system yielded.
RegistryIndependentOfFileOrder ==
    pc = "collected" =>
        LET r == CollectInOrder(language,
                    [all |-> {}, tbm |-> EmptyMarkers, scan |-> FreshLocals,
                     raised |-> FALSE], 1)
        IN  all_tests = r.all /\ tests_by_marker = r.tbm

\* two files were collected in descending order, the first one processed
\* leaving marker state behind and the second one registering a test
CollectedInDescendingOrder ==
    /\ pc = "collected"
    /\ processed = <<2, 1>>
    /\ files[2].readable /\ Len(files[2].content) > 0
    /\ Last(files[2].content).kind \in {"decorator", "describe", "class"}
    /\ all_tests # {}

\* C8: a file whose extraction raises leaves the registry as it was, the
\* error does not escape, the remaining files are processed and the
\* collector returns success.
FailedFileContributesNothing ==
    [][/\ (/\ Len(processed') = Len(processed) + 1
           /\ ~files[Last(processed')].readable)
          => /\ all_tests' = all_tests
             /\ tests_by_marker' = tests_by_marker
             /\ pc' = "parsing"
       /\ pc' = "collected"
          => /\ collected'
             /\ Range(processed') = DOMAIN files]_vars

\* collection succeeded although the first file processed could not be
\* read; the file after it contributed its tests
CollectedDespiteUnreadableFile ==
    /\ pc = "collected"
    /\ collected
    /\ Len(processed) = 2
    /\ ~files[processed[1]].readable
    /\ all_tests # {}

\* C9: for each language, collect_tests returns failure if and only if none
\* of the language's conventional test directories exists (the project root
\* for the two languages scanned from the root).
CollectFailsIffNoTestDir ==
    /\ pc = "collect_failed" => ~SearchedDirExists(language, dirs)
    /\ pc = "collected" => SearchedDirExists(language, dirs)

\* C10: the exit status is 0 exactly when the computed score reaches the
\* minimum score, the condition reported as passed, and is non-zero when
\* the score is below it or no test directory exists for the language.
ExitStatusFollowsScore ==
    pc = "exited" =>
        /\ exit_code = 0 <=> (collected /\ RLeq(minimum_score, score))
        /\ collected => (exit_code = 0 <=> report.passed)
        /\ ~SearchedDirExists(language, dirs) => exit_code # 0

-----------------------------------------------------------------------------
(* Properties of the recommendation generator *)

\* tests that belong to no tier
Uncategorized == all_tests \ UNION {tests_by_marker[m] : m \in Tiers}

TierIndex(m) == CHOOSE i \in 1..Len(TierOrder) : TierOrder[i] = m

\* place of a recommendation in the fixed order of the rules: add-markers,
\* the per-tier suggestions tier by tier, low unit, e2e over-representation
RuleRank(rec) ==
    CASE rec.rule = "add_markers" -> 0
      [] rec.rule \in {"reduce", "add_more"} -> TierIndex(rec.marker)
      [] rec.rule = "low_unit" -> Len(TierOrder) + 1
      [] rec.rule = "e2e_over" -> Len(TierOrder) + 2
      [] rec.rule = "healthy" -> Len(TierOrder) + 3

InRuleOrder(recs) ==
    \A i, j \in 1..Len(recs) : i < j => RuleRank(recs[i]) < RuleRank(recs[j])

\* C13: whenever some test belongs to no tier, the first recommendation is
\* the add-markers instruction, it names exactly the number of tests of
\* all_tests outside the union of the tier sets, and the other
\* recommendations follow in the order per-tier suggestions, low-unit
\* warning, e2e over-representation warning.
AddMarkersComesFirst ==
    (pc = "reported" /\ Uncategorized # {}) =>
        /\ recommendations # <<>>
        /\ recommendations[1] =
               Rec("add_markers", "", Cardinality(Uncategorized))
        /\ InRuleOrder(recommendations)

\* a report for a registry with an uncategorized test in which the
\* add-markers instruction is followed by a per-tier suggestion and by both
\* warnings
AddMarkersThenEveryRule ==
    /\ pc = "reported"
    /\ Uncategorized # {}
    /\ Len(recommendations) >= 4
    /\ recommendations[Len(recommendations) - 1] = Rec("low_unit", "", 0)
    /\ recommendations[Len(recommendations)] = Rec("e2e_over", "", 0)

\* no rule of the generator has anything to report
NothingToRecommend ==
    /\ Uncategorized = {}
    /\ \A m \in Tiers :
          RLeq(RAbs(RSub(distribution[m], targets[m])), Rat(5, 1))
    /\ RLeq(Rat(60, 1), distribution["unit"])
    /\ RLeq(distribution["e2e"], Rat(15, 1))

\* C14: the recommendation list is never empty; it is the single healthy
\* message exactly when no test is uncategorized, every tier is within 5
\* points of its target, unit is at least 60 and e2e at most 15, and in
\* every other case the healthy message is absent.
HealthyIffNothingToRecommend ==
    pc = "reported" =>
        /\ recommendations # <<>>
        /\ recommendations = <<HEALTHY>> <=> NothingToRecommend
        /\ ~NothingToRecommend =>
              \A i \in 1..Len(recommendations) : recommendations[i] # HEALTHY

\* a report that consists of the healthy message, on a registry of tests
\* with a tier exactly 5 points off its target
HealthyPyramidReported ==
    /\ pc = "reported"
    /\ all_tests # {}
    /\ recommendations = <<HEALTHY>>
    /\ \E m \in Tiers :
          RAbs(RSub(distribution[m], targets[m])) = DELTA_TOLERANCE

\* C15: once collection has finished, calculate_distribution,
\* calculate_score, get_missing_markers_count, _generate_recommendations and
\* the report generators leave all_tests, every tests_by_marker set and
\* test_files_scanned as they were, in whatever order and however often
\* they are called.
RegistryReadOnlyAfterCollection ==
    [][pc = "api" =>
          /\ all_tests' = all_tests
          /\ tests_by_marker' = tests_by_marker
          /\ test_files_scanned' = test_files_scanned]_vars

\* every method has been called on a registry with a test that is in no
\* tier and a test that is in two
EveryMethodCalled ==
    /\ pc = "api"
    /\ Uncategorized # {}
    /\ tests_by_marker["unit"] \cap tests_by_marker["integration"] # {}
    /\ distribution # [m \in Tiers |-> Zero]
    /\ score # Zero
    /\ report.total_tests = Cardinality(all_tests)
    /\ report.missing_markers = Cardinality(Uncategorized)
    /\ recommendations # <<>>

\* share of the tests that are in tier m, in percent
Share(m) ==
    IF all_tests = {} THEN Zero
    ELSE Rat(100 * Cardinality(tests_by_marker[m]), Cardinality(all_tests))

\* deviation of tier m from the target the caller supplied for it
SuppliedDeviation(m) ==
    IF m \in DOMAIN supplied_targets
    THEN RAbs(RSub(Share(m), supplied_targets[m]))
    ELSE Zero

\* the linear penalty formula on the supplied targets, clamped; the
\* uncategorized tests are counted as the scorer counts them
LinearPenaltyOnSupplied ==
    LET deviations == RAdd(SuppliedDeviation("unit"),
                           RAdd(SuppliedDeviation("integration"),
                                SuppliedDeviation("e2e")))
        raw == RSub(RSub(Ten, RMul(Rat(1, 10), deviations)),
                    UncategorizedPenalty(all_tests, tests_by_marker))
    IN  IF RLess(raw, Zero) THEN Zero
        ELSE IF RLess(Ten, raw) THEN Ten ELSE raw

\* C16: for any target mapping a caller supplies (empty, without some tier,
\* with negative values), the distribution, the score and the
\* recommendations are computed without an error being raised, and the
\* score is the clamped linear penalty formula applied to the supplied
\* targets.
SuppliedTargetsNeverRaise ==
    /\ pc # "crashed"
    /\ pc \in {"scored", "reported"} => score = LinearPenaltyOnSupplied

-----------------------------------------------------------------------------
(* Properties of the convention A extractor and of the validator's scan *)

\* the lines of the one file of the single-file specification
FileLines == files[1].content

TestLines == {i \in 1..Len(FileLines) : FileLines[i].kind = "test"}

\* line of the scope declaration that encloses line i, 0 when there is none
EnclosingScopeLine(i) ==
    LET above == {j \in 1..(i - 1) : FileLines[j].kind = "class"}
    IN  IF above = {} THEN 0 ELSE CHOOSE j \in above : \A k \in above : k <= j

\* the identifier under which the test of line i is registered
TestIdAt(i) ==
    LET c == EnclosingScopeLine(i)
    IN  <<1, IF c = 0 THEN "" ELSE FileLines[c].name, FileLines[i].name>>

\* tiers named on the n lines immediately before line c
TiersAbove(c, n) ==
    {FileLines[j].tier : j \in {k \in 1..(c - 1) : c - k <= n}} \cap Tiers

\* scope-level tiers of the scope that encloses line i: the annotations on
\* the 10 lines before its declaration
ScopeTiers(i) ==
    LET c == EnclosingScopeLine(i)
    IN  IF c = 0 THEN {} ELSE TiersAbove(c, 10)

\* the test's own function-level tiers: the annotation lines that
\* immediately precede line i, with no other line in between
OwnTiers(i) ==
    {FileLines[j].tier :
        j \in {k \in 1..(i - 1) :
                 \A l \in k..(i - 1) : FileLines[l].kind = "decorator"}}
    \cap Tiers

\* the tiers a test identifier is registered in
RegisteredTiers(id) == {m \in Tiers : id \in tests_by_marker[m]}

\* the test lines that are registered under identifier id
LinesOf(id) == {i \in TestLines : TestIdAt(i) = id}

Extracted == processed # <<>>

\* C17: in a convention A file the tier set a test is registered with is
\* exactly the union of the scope-level tiers of its enclosing scope and
\* of its own function-level tiers (a test in a scope annotated T is in T,
\* a test annotated U as well is in T and in U), and a test with such a
\* tier is not uncategorized.
TiersAreScopeUnionOwn ==
    Extracted =>
        \A i \in TestLines :
            LET id == TestIdAt(i)
                expected ==
                    UNION {ScopeTiers(k) \cup OwnTiers(k) : k \in LinesOf(id)}
            IN  /\ id \in all_tests
                /\ RegisteredTiers(id) = expected
                /\ expected # {} => id \notin Uncategorized

\* lines the validator reported as violations
ViolationLines ==
    IF 1 \in DOMAIN violations
    THEN {violations[1][k].line : k \in 1..Len(violations[1])}
    ELSE {}

Validated == vfiles = <<>>

\* C18: a function-level tier annotation is attributed to the one test
\* whose line it immediately precedes and to no other: a test outside
\* every annotated scope is registered in no tier but those of the
\* annotations immediately before it, and the validator reports it when
\* there is none.
OwnMarkersOnlyFromAdjacentLines ==
    /\ Extracted =>
          \A i \in TestLines :
              (\A k \in LinesOf(TestIdAt(i)) : ScopeTiers(k) = {}) =>
                  RegisteredTiers(TestIdAt(i))
                      \subseteq UNION {OwnTiers(k) : k \in LinesOf(TestIdAt(i))}
    /\ Validated =>
          \A i \in TestLines :
              (EnclosingScopeLine(i) = 0 /\ OwnTiers(i) = {}) =>
                  i \in ViolationLines

\* effective_markers of the extractor when its loop reaches test line i
ExtractorEffectiveAt(i) ==
    LET start == [all |-> {}, tbm |-> EmptyMarkers,
                  scan |-> InitLocals(FreshLocals), raised |-> FALSE]
        st == PythonScan(start, 1, SubSeq(FileLines, 1, i - 1), 1)
    IN  st.scan.class_markers \cup st.scan.function_markers

\* C19: the validator and the convention A extractor agree on every file:
\* the test lines the validator reports are exactly the test lines for
\* which the extractor computes an empty effective tier set, so a test
\* identifier is left uncategorized by the extractor exactly when every
\* line that declares it is reported by the validator.
ValidatorAgreesWithExtractor ==
    (Extracted /\ Validated) =>
        /\ ViolationLines = {i \in TestLines : ExtractorEffectiveAt(i) = {}}
        /\ \A id \in all_tests :
              id \in Uncategorized <=> LinesOf(id) \subseteq ViolationLines

\* function-level markers pending when the loop reaches line i: the marker
\* lines since the last scope declaration or test line
PendingAt(i) ==
    {FileLines[j].tier :
        j \in {k \in 1..(i - 1) :
                 /\ FileLines[k].kind = "decorator"
                 /\ \A l \in k..(i - 1) :
                       FileLines[l].kind \notin {"class", "test"}}}
    \cap Tiers

\* C20: a tier annotation is a scope-level marker of a scope exactly when
\* it is on one of the 10 lines immediately before the scope declaration
\* (an annotation 11 or more lines above is not inherited), and a scope
\* declaration discards the scope-level markers of the scope before it and
\* the function-level markers pending at it.
ScopeMarkersFromTenLinesAbove ==
    Extracted =>
        /\ LET c == EnclosingScopeLine(Len(FileLines) + 1)
           IN  scan.class_markers = IF c = 0 THEN {} ELSE TiersAbove(c, 10)
        /\ scan.function_markers = PendingAt(Len(FileLines) + 1)
        /\ \A i \in TestLines :
              RegisteredTiers(TestIdAt(i)) =
                  UNION {ScopeTiers(k) \cup PendingAt(k) :
                            k \in LinesOf(TestIdAt(i))}

\* a scope with an annotation 10 lines above its declaration, which it
\* inherits, and another 11 lines above, which it does not
AnnotationsAtBothSidesOfWindow ==
    /\ Extracted
    /\ \E c \in 12..Len(FileLines) :
          /\ FileLines[c].kind = "class"
          /\ EnclosingScopeLine(Len(FileLines) + 1) = c
          /\ FileLines[c - 10].tier = "integration"
          /\ FileLines[c - 11].tier = "unit"
          /\ scan.class_markers = {"integration"}
          /\ \E i \in TestLines :
                i > c /\ RegisteredTiers(TestIdAt(i)) = {"integration"}

-----------------------------------------------------------------------------
(* Properties of the convention B and convention C extractors *)

\* test lines of file f that declare the test registered as id
DeclaringLines(f, id) ==
    {i \in 1..Len(files[f].content) :
        /\ files[f].content[i].kind = "test"
        /\ <<f, "", files[f].content[i].name>> = id}

\* the tier of the nearest tier-labelled grouping above line i of file f,
\* none when no such grouping precedes the line
NearestGroupingTier(f, i) ==
    LET lines == files[f].content
        above == {j \in 1..(i - 1) :
                    lines[j].kind = "describe" /\ lines[j].tier \in Tiers}
    IN  IF above = {} THEN {}
        ELSE {lines[CHOOSE j \in above : \A k \in above : k <= j].tier}

\* C21: in a convention B file each test is registered in the tier of the
\* nearest tier-labelled grouping that precedes it; a later grouping
\* changes the tier only of the tests after it, and a test before every
\* tier-labelled grouping is registered in no tier.
TierCarriedForwardByPosition ==
    language = "javascript" =>
        \A f \in Range(processed) :
            \A id \in {t \in all_tests : DeclaringLines(f, t) # {}} :
                RegisteredTiers(id) =
                    UNION {NearestGroupingTier(f, i) : i \in DeclaringLines(f, id)}

\* tiers of the build constraint comments on the n lines immediately
\* before line i of file f
TagsAbove(f, i, n) ==
    LET lines == files[f].content
    IN  {lines[j].tier :
            j \in {k \in 1..(i - 1) : i - k <= n /\ lines[k].kind = "tag"}}
        \cap Tiers

\* C22: in a convention C file a build constraint comment attaches its
\* tier to a Test function exactly when it is on one of the 5 lines
\* immediately before the declaration line: the 5th line above attaches,
\* the 6th and earlier lines do not.
TagsFromFiveLinesAbove ==
    language = "go" =>
        \A f \in Range(processed) :
            \A id \in {t \in all_tests : DeclaringLines(f, t) # {}} :
                RegisteredTiers(id) =
                    UNION {TagsAbove(f, i, 5) : i \in DeclaringLines(f, id)}

-----------------------------------------------------------------------------
(* Properties of the marker validator *)

\* number of entries of all per-file violation lists taken together
RECURSIVE EntriesIn(_, _)
EntriesIn(viol, paths) ==
    IF paths = {} THEN 0
    ELSE LET p == CHOOSE q \in paths : TRUE
         IN  Len(viol[p]) + EntriesIn(viol, paths \ {p})

\* validate_files has returned
ValidateFilesReturned == pc = "validating" /\ vfiles = <<>>

\* C11: once validate_files has run over a list of files on a fresh
\* validator, its result is valid exactly when the running total of
\* violations is zero, the running total is the number of entries of all
\* per-file violation lists together, and the "valid" flag of the report
\* agrees with both.
ValidatorTotalsAgree ==
    ValidateFilesReturned =>
        /\ all_valid <=> total_violations = 0
        /\ total_violations = EntriesIn(violations, DOMAIN violations)
        /\ get_json_report(violations, total_tests_checked,
                           total_violations).valid <=> all_valid

\* the command line names nothing to validate: invalid usage
InvalidUsage == ~argv.all /\ argv.files = <<>>

\* the run finds no test directory or no test file to validate
NothingFound ==
    IF argv.all THEN find_all_test_files(dirs, files) = <<>>
    ELSE argv.files # <<>> /\ \A i \in 1..Len(argv.files) : argv.files[i] = 0

====
